---- MODULE Spec2Model ----
(***************************************************************************)
(* State-machine model of the Gaussian-process example drivers             *)
(*   examples/gaussian_processes/basic_dgp.py          (deep GP)           *)
(*   examples/gaussian_processes/basic_regression2.py  (exact GP)          *)
(*                                                                         *)
(* Numeric conventions: index points of basic_dgp are held in eighths      *)
(* (-1.5 is -12, 1.5 is 12), observations in tenths (1.0 is 10), matrix    *)
(* entries and jitter in multiples of 1e-4.  Values computed by the        *)
(* numerical collaborators (kernels, distributions, jax.random.normal)     *)
(* are opaque: they are drawn from small sets when they are produced.      *)
(***************************************************************************)
EXTENDS Integers, Sequences, FiniteSets, TLC

VARIABLES
    \* ---- basic_dgp.py: drivers (main, get_datasets, train, train_step)
    main_pc,        \* position of the driver
    index_points,   \* get_datasets: the linspace grid (eighths)
    step_vals,      \* get_datasets: [step_fun(x) for x in index_points]
    train_ds,       \* get_datasets: the returned dataset
    rng,            \* the PRNGKey of the running driver
    num_epochs,     \* FLAGS.num_epochs
    prng_stack,     \* frames pushed by nn.stochastic
    optimizer,      \* train_step: the optimizer
    batch,          \* train_step: the batch
    loss,           \* train_step: value of loss_fn
    ts_sample_key,  \* train_step: the sample_key argument
    noise,          \* get_datasets: the draw random.normal(rng, shape)
    train_steps,    \* log: the sample key of every executed train_step
    err,            \* exception that ended the driver ("none" when none)
    \* ---- basic_dgp.py: DeepGPModel.apply
    pc,             \* position inside DeepGPModel.apply
    args,           \* log: the (x, sample_key) the caller passed
    x,              \* the local x (rebound by every layer)
    sample_key,     \* the local sample_key
    kwargs,         \* the **kwargs of the call
    vgps,           \* the dict vgps, in insertion order
    mf,             \* the current mean function
    layer,          \* loop variable
    kf,             \* kernel of the current layer
    inducing_var,   \* inducing variable of the current layer
    vgp,            \* SVGP of the current layer
    loglik,         \* the likelihood
    built,          \* log: every provider constructed, with its inputs
    draws,          \* log: every marginal().sample(...) call
    \* ---- basic_regression2.py: GaussianProcessLayer.apply
    gp_pc,          \* position inside GaussianProcessLayer.apply
    gp_index_points,\* number of index points
    kernel_fun,     \* the kernel, given by its matrix on the index points
    mean_fun,       \* the mean function argument (None when omitted)
    jitter,         \* the jitter argument
    mean,           \* the local mean
    cov,            \* the local cov
    chol_arg,       \* log: the matrix handed to jnp.linalg.cholesky
    \* ---- basic_regression2.py: MeanShiftDistribution.apply
    ms_pc,          \* position inside MeanShiftDistribution.apply
    p,              \* the distribution argument
    shift,          \* the shift argument
    pnew,           \* the outcome: a returned object or a raised exception
    \* ---- basic_regression2.py: build_par_pack_and_unpack
    pk_pc,          \* position of the pack/unpack round trip
    params,         \* model.params
    section_shapes, \* closure variable section_shapes
    section_sizes,  \* closure variable section_sizes
    arr,            \* flat array handed to par_from_array
    par,            \* parameter tree handed to array_from_par
    arr_out,        \* result of array_from_par
    par_out         \* result of par_from_array

driverVars == <<main_pc, index_points, step_vals, train_ds, rng, num_epochs,
                prng_stack, optimizer, batch, loss, ts_sample_key, noise,
                train_steps>>
applyVars == <<pc, args, x, sample_key, kwargs, vgps, mf, layer, kf,
               inducing_var, vgp, loglik, built, draws>>
gpVars == <<gp_pc, gp_index_points, kernel_fun, mean_fun, jitter, mean, cov,
            chol_arg>>
msVars == <<ms_pc, p, shift, pnew>>
pkVars == <<pk_pc, params, section_shapes, section_sizes, arr, par, arr_out,
            par_out>>
regVars == <<gpVars, msVars, pkVars>>
vars == <<driverVars, err, applyVars, regVars>>

--------------------------------------------------------------------------
(* Bounds of the model *)
MaxEpochs == 3      \* values of FLAGS.num_epochs explored: 1..MaxEpochs
MaxBatch == 2       \* distinct batches handed to train_step
MaxKL == 1          \* prior_kl() of a layer ranges over 0..MaxKL
MaxLogProb == 1     \* log_prob(y) ranges over -MaxLogProb..0
MaxNoise == 1       \* noise vectors explored by get_datasets: 0..MaxNoise
MaxN == 2           \* GaussianProcessLayer: 1..MaxN index points
MaxEntry == 1       \* kernel matrix entries range over 0..MaxEntry
MaxJitter == 2      \* jitter arguments range over 1..MaxJitter
MaxMeanLen == 2     \* MeanShiftDistribution: mean and shift lengths 1..MaxMeanLen
MaxMean == 1        \* entries of a mean range over 0..MaxMean
MaxShift == 1       \* entries of a shift range over 0..MaxShift
MaxLeaves == 2      \* parameter trees of 1..MaxLeaves leaves
MaxRank == 1        \* leaf shapes of 0..MaxRank axes
MaxDim == 2         \* every axis of length 1..MaxDim
MaxBase == 1        \* leaf values start at 0..MaxBase

(* Program constants *)
NumLayers == 2              \* for layer in range(1, 3)
NumSamples == 17            \* shape=(17, )
NumPoints == 25             \* jnp.linspace(-1.5, 1.5, 25)
NumInducingPoints == 10     \* flag num_inducing_points
DefaultJitter == 1          \* jitter: float = 1e-4

None == [kind |-> "None"]
EmptyDict == << >>

--------------------------------------------------------------------------
(* jax.random: keys are the path of derivations from a seed *)
PRNGKey(seed) == <<seed>>
split(key) == <<Append(key, 0), Append(key, 1)>>

(* nn.stochastic / nn.make_rng: a frame holds the scope's key and the      *)
(* number of keys drawn from it; every draw folds the counter in.          *)
stochastic(key) == [rng |-> key, counter |-> 0]
make_rng(frame) == Append(Append(frame.rng, 2), frame.counter + 1)

RECURSIVE SplitChain(_, _)
SplitChain(key, e) == IF e = 0 THEN key ELSE split(SplitChain(key, e - 1))[2]

--------------------------------------------------------------------------
(* Python dicts and keyword calls *)
KwGet(d, k) == IF k \in DOMAIN d THEN d[k] ELSE EmptyDict

\* keywords given both explicitly and through ** in one call
DuplicateKeywords(explicit, unpacked) == DOMAIN explicit \cap DOMAIN unpacked

\* an insertion-ordered dict is a sequence of [key, item]
DictSetFixedKey(d, k, v) ==
    IF \E i \in 1..Len(d) : d[i].key = 1
    THEN [i \in 1..Len(d) |-> IF d[i].key = 1 THEN [key |-> 1, item |-> v] ELSE d[i]]
    ELSE Append(d, [key |-> 1, item |-> v])
DictSet(d, k, v) ==
    IF \E i \in 1..Len(d) : d[i].key = k
    THEN [i \in 1..Len(d) |-> IF d[i].key = k THEN [key |-> k, item |-> v] ELSE d[i]]
    ELSE Append(d, [key |-> k, item |-> v])

RECURSIVE SeqSum(_)
SeqSum(s) == IF s = << >> THEN 0 ELSE Head(s) + SeqSum(Tail(s))

--------------------------------------------------------------------------
(* create_model: the per-layer keyword dictionaries *)
KernelKwargsKey(l) == <<"kernel_fun", l, "kwargs">>
InducingKwargsKey(l) == <<"inducing_var", l, "kwargs">>

CreateModelKwargs ==
    [k \in {KernelKwargsKey(i) : i \in 1..2} \cup {InducingKwargsKey(i) : i \in 1..2} |->
        IF k[1] = "kernel_fun"
        THEN [amplitude_init |-> "ones", length_scale_init |-> "ones"]
        ELSE [fixed_locations |-> TRUE, inducing_locations_init |-> "inducing_loc_init"]]

\* keywords DeepGPModel.apply writes out in each constructor call
KernelExplicit(l) == [name |-> <<"kernel_fun", l>>]
InducingExplicit(l) ==
    [name |-> <<"inducing_var", l>>,
     num_inducing_points |-> NumInducingPoints,
     fixed_locations |-> TRUE]

--------------------------------------------------------------------------
(* DeepGPModel.apply *)

Raise(e) ==
    /\ pc' = "raised"
    /\ err' = e

\* lines 68-71
ApplyBegin ==
    /\ pc = "begin"
    /\ vgps' = << >>
    /\ mf' = "zeros"
    /\ layer' = 1
    /\ pc' = "kernel_fun"
    /\ UNCHANGED <<args, x, sample_key, kwargs, kf, inducing_var, vgp, loglik,
                   built, draws, driverVars, err, regVars>>

\* kf = kernels.RBFKernelProvider(x, name=..., **kwargs.get(...))
BuildKernel ==
    /\ pc = "kernel_fun"
    /\ LET explicit == KernelExplicit(layer)
           unpacked == KwGet(kwargs, KernelKwargsKey(layer))
       IN IF DuplicateKeywords(explicit, unpacked) # {}
          THEN /\ Raise("TypeError")
               /\ UNCHANGED <<kf, built>>
          ELSE /\ kf' = [index_points |-> x, kw |-> explicit @@ unpacked]
               /\ built' = Append(built, [what |-> "kernel_fun", layer |-> layer,
                                          index_points |-> x, mean_fun |-> "n/a",
                                          kl |-> 0])
               /\ pc' = "inducing_var"
               /\ UNCHANGED err
    /\ UNCHANGED <<args, x, sample_key, kwargs, vgps, mf, layer, inducing_var,
                   vgp, loglik, draws>>
    /\ UNCHANGED <<driverVars, regVars>>

\* inducing_var = inducing_variables.InducingPointsProvider(x, kf, name=...,
\*     num_inducing_points=..., fixed_locations=True, **kwargs.get(...))
BuildInducing ==
    /\ pc = "inducing_var"
    /\ LET explicit == InducingExplicit(layer)
           unpacked == KwGet(kwargs, InducingKwargsKey(layer))
       IN IF DuplicateKeywords(explicit, unpacked) # {}
          THEN /\ Raise("TypeError")
               /\ UNCHANGED <<inducing_var, built>>
          ELSE /\ inducing_var' = [index_points |-> x, kernel |-> kf.kw.name,
                                   kw |-> explicit @@ unpacked]
               /\ built' = Append(built, [what |-> "inducing_var", layer |-> layer,
                                          index_points |-> x, mean_fun |-> "n/a",
                                          kl |-> 0])
               /\ pc' = "vgp"
               /\ UNCHANGED err
    /\ UNCHANGED <<args, x, sample_key, kwargs, vgps, mf, layer, kf,
                   vgp, loglik, draws>>
    /\ UNCHANGED <<driverVars, regVars>>

\* vgp = gaussian_processes.SVGPProvider(x, mf, kf, inducing_var, name=...)
BuildVgp ==
    /\ pc = "vgp"
    /\ \E k \in 0..MaxKL :
        /\ vgp' = [name |-> <<"vgp", layer>>, index_points |-> x,
                   mean_fun |-> mf, kernel |-> kf.kw.name,
                   inducing |-> inducing_var.kw.name, prior_kl |-> k]
        /\ built' = Append(built, [what |-> "vgp", layer |-> layer,
                                   index_points |-> x, mean_fun |-> mf,
                                   kl |-> k])
    /\ pc' = "sample"
    /\ UNCHANGED <<args, x, sample_key, kwargs, vgps, mf, layer, kf,
                   inducing_var, loglik, draws, driverVars, err, regVars>>

\* vgp.marginal().sample(key, shape=(17, ))[..., None]
Sample(v, key) ==
    [kind |-> "sample", marginal_of |-> v.name, at |-> v.index_points,
     key |-> key, shape |-> <<NumSamples>>, feature_axis |-> TRUE]

\* a layer whose sample is dropped: x keeps its value
SampleLayerKeepInput ==
    /\ pc = "sample"
    /\ x' = x
    /\ draws' = Append(draws, [layer |-> layer, key |-> sample_key,
                               shape |-> <<NumSamples>>,
                               value |-> Sample(vgp, sample_key)])
    /\ vgps' = DictSet(vgps, layer, vgp)
    /\ pc' = "mean_fun"
    /\ UNCHANGED <<args, sample_key, kwargs, mf, layer, kf, inducing_var, vgp,
                   loglik, built, driverVars, err, regVars>>

\* a layer that advances the key after drawing
SampleLayerSplitKey ==
    /\ pc = "sample"
    /\ x' = Sample(vgp, sample_key)
    /\ draws' = Append(draws, [layer |-> layer, key |-> sample_key,
                               shape |-> <<NumSamples>>,
                               value |-> Sample(vgp, sample_key)])
    /\ vgps' = DictSet(vgps, layer, vgp)
    /\ sample_key' = split(sample_key)[2]
    /\ pc' = "mean_fun"
    /\ UNCHANGED <<args, kwargs, mf, layer, kf, inducing_var, vgp,
                   loglik, built, driverVars, err, regVars>>

\* a layer stored under a constant key
SampleLayerFixedKey ==
    /\ pc = "sample"
    /\ x' = Sample(vgp, sample_key)
    /\ draws' = Append(draws, [layer |-> layer, key |-> sample_key,
                               shape |-> <<NumSamples>>,
                               value |-> Sample(vgp, sample_key)])
    /\ vgps' = DictSetFixedKey(vgps, layer, vgp)
    /\ pc' = "mean_fun"
    /\ UNCHANGED <<args, sample_key, kwargs, mf, layer, kf, inducing_var, vgp,
                   loglik, built, driverVars, err, regVars>>

\* lines 90-91
SampleLayer ==
    /\ pc = "sample"
    /\ x' = Sample(vgp, sample_key)
    /\ draws' = Append(draws, [layer |-> layer, key |-> sample_key,
                               shape |-> <<NumSamples>>,
                               value |-> Sample(vgp, sample_key)])
    /\ vgps' = DictSet(vgps, layer, vgp)
    /\ pc' = "mean_fun"
    /\ UNCHANGED <<args, sample_key, kwargs, mf, layer, kf, inducing_var, vgp,
                   loglik, built, driverVars, err, regVars>>

\* layers that look mf up when used: rebinding mf changes the layers built
NextLayerRebinds ==
    /\ pc = "mean_fun"
    /\ mf' = "feature_0"
    /\ vgps' = [i \in 1..Len(vgps) |->
                  [key |-> vgps[i].key,
                   item |-> [vgps[i].item EXCEPT !.mean_fun = "feature_0"]]]
    /\ IF layer + 1 <= NumLayers
       THEN /\ layer' = layer + 1
            /\ pc' = "kernel_fun"
       ELSE /\ layer' = layer
            /\ pc' = "loglik"
    /\ UNCHANGED <<args, x, sample_key, kwargs, kf, inducing_var, vgp,
                   loglik, built, draws, driverVars, err, regVars>>

\* line 93 and the loop header
NextLayer ==
    /\ pc = "mean_fun"
    /\ mf' = "feature_0"
    /\ IF layer + 1 <= NumLayers
       THEN /\ layer' = layer + 1
            /\ pc' = "kernel_fun"
       ELSE /\ layer' = layer
            /\ pc' = "loglik"
    /\ UNCHANGED <<args, x, sample_key, kwargs, vgps, kf, inducing_var, vgp,
                   loglik, built, draws, driverVars, err, regVars>>

\* loglik = LikelihoodProvider(x, name='loglik'); return loglik, vgps
BuildLoglik ==
    /\ pc = "loglik"
    /\ \E lp \in (0 - MaxLogProb)..0 :
        loglik' = [name |-> "loglik", mean_of |-> x, log_prob |-> lp]
    /\ built' = Append(built, [what |-> "loglik", layer |-> NumLayers + 1,
                               index_points |-> x, mean_fun |-> "n/a", kl |-> 0])
    /\ pc' = "returned"
    /\ UNCHANGED <<args, x, sample_key, kwargs, vgps, mf, layer, kf,
                   inducing_var, vgp, draws, driverVars, err, regVars>>

--------------------------------------------------------------------------
(* get_datasets *)

\* jnp.linspace(start, stop, num), endpoints included
linspace(start, stop, num) ==
    [i \in 1..num |->
        IF num = 1 THEN start
        ELSE start + ((i - 1) * (stop - start)) \div (num - 1)]

step_fun_strict(v) == IF v < 0 THEN 0 - 1 ELSE 1
step_fun(v) == IF v <= 0 THEN 0 - 1 ELSE 1

\* random.normal(rng, shape): one of the explored draws, in units of 1
Normal(a, n) == [i \in 1..n |-> ((a * i + i) % 5) - 2]

\* rng = random.PRNGKey(123); index_points = jnp.linspace(-1.5, 1.5, 25)
GetDatasetsLinspace ==
    /\ main_pc = "get_datasets"
    /\ rng' = PRNGKey(123)
    /\ index_points' = linspace(0 - 12, 12, NumPoints)
    /\ main_pc' = "step_fun"
    /\ UNCHANGED <<step_vals, train_ds, num_epochs, prng_stack, optimizer, batch,
                   loss, ts_sample_key, noise, train_steps, err, applyVars, regVars>>

\* one element of [step_fun(x) for x in index_points]
GetDatasetsStepFun ==
    /\ main_pc = "step_fun"
    /\ Len(step_vals) < Len(index_points)
    /\ step_vals' = Append(step_vals, step_fun(index_points[Len(step_vals) + 1]))
    /\ UNCHANGED <<main_pc, index_points, train_ds, rng, num_epochs, prng_stack,
                   optimizer, batch, loss, ts_sample_key, noise, train_steps, err,
                   applyVars, regVars>>

\* y = array(...) + 0.1*random.normal(rng, shape); train_ds = {...}; in main,
\* train(train_ds) is entered next
GetDatasetsReturn ==
    /\ main_pc = "step_fun"
    /\ Len(step_vals) = Len(index_points)
    /\ \E a \in 0..MaxNoise :
        /\ noise' = Normal(a, Len(index_points))
        /\ train_ds' =
            [index_points |-> [i \in 1..Len(index_points) |-> <<index_points[i]>>],
             y |-> [i \in 1..Len(index_points) |->
                       10 * step_vals[i] + Normal(a, Len(index_points))[i]]]
    /\ main_pc' = "train"
    /\ UNCHANGED <<index_points, step_vals, rng, num_epochs, prng_stack, optimizer,
                   batch, loss, ts_sample_key, train_steps, err, applyVars, regVars>>

--------------------------------------------------------------------------
(* train and create_model *)

\* rng = random.PRNGKey(1); num_epochs = FLAGS.num_epochs; with nn.stochastic(rng):
TrainBegin ==
    /\ main_pc = "train"
    /\ rng' = PRNGKey(1)
    /\ prng_stack' = <<stochastic(PRNGKey(1))>>
    /\ main_pc' = "create_model"
    /\ UNCHANGED <<index_points, step_vals, train_ds, num_epochs, optimizer, batch,
                   loss, ts_sample_key, noise, train_steps, err, applyVars, regVars>>

\* create_model(rng, (15, 1)): builds kwargs, enters nn.stochastic(key) and calls
\* DeepGPModel.init_by_shape(key, specs, nn.make_rng(), **kwargs), which runs
\* DeepGPModel.apply on an input of the given shape
CreateModel ==
    /\ main_pc = "create_model"
    /\ LET frame == stochastic(rng)
           key == make_rng(frame)
           inp == [kind |-> "input", id |-> 0]
       IN /\ prng_stack' = Append(prng_stack, [frame EXCEPT !.counter = @ + 1])
          /\ args' = [x |-> inp, sample_key |-> key]
          /\ x' = inp
          /\ sample_key' = key
    /\ kwargs' = CreateModelKwargs
    /\ pc' = "begin"
    /\ main_pc' = "init_by_shape"
    /\ UNCHANGED <<index_points, step_vals, train_ds, rng, num_epochs, optimizer,
                   batch, loss, ts_sample_key, noise, train_steps, err, vgps, mf,
                   layer, kf, inducing_var, vgp, loglik, built, draws, regVars>>

\* an exception raised inside DeepGPModel.apply leaves init_by_shape, both
\* nn.stochastic blocks, create_model, train and main: nothing catches it.
\* create_model always ends this way (BuildInducing raises for layer 1 under
\* CreateModelKwargs), so the rest of train (create_optimizer, the draw of
\* sample_key and the epoch loop) is never entered from main; train_step
\* is modelled as an operation of its own, entered through InitTrainStep.
PropagateError ==
    /\ main_pc = "init_by_shape"
    /\ pc = "raised"
    /\ prng_stack' = << >>
    /\ main_pc' = "raised"
    /\ UNCHANGED <<index_points, step_vals, train_ds, rng, num_epochs, optimizer,
                   batch, loss, ts_sample_key, noise, train_steps, err, applyVars,
                   regVars>>

--------------------------------------------------------------------------
(* train_step *)

\* [item.prior_kl() for _, item in vgps.items()]
PriorKlList(d) == [i \in 1..Len(d) |-> d[i].item.prior_kl]

\* loss_fn: ell, vgps = model(batch['index_points'], sample_key)
TrainStepCall ==
    /\ main_pc = "train_step"
    /\ args' = [x |-> batch.index_points, sample_key |-> ts_sample_key]
    /\ x' = batch.index_points
    /\ sample_key' = ts_sample_key
    /\ kwargs' = EmptyDict
    /\ pc' = "begin"
    /\ main_pc' = "loss_fn"
    /\ UNCHANGED <<index_points, step_vals, train_ds, rng, num_epochs, prng_stack,
                   optimizer, batch, loss, ts_sample_key, noise, train_steps, err,
                   vgps, mf, layer, kf, inducing_var, vgp, loglik, built, draws,
                   regVars>>

\* prior_kl = jnp.sum([...]); return -ell.log_prob(batch['y']) + prior_kl
LossFn ==
    /\ main_pc = "loss_fn"
    /\ pc = "returned"
    /\ loss' = (0 - loglik.log_prob) + SeqSum(PriorKlList(vgps))
    /\ main_pc' = "grad"
    /\ UNCHANGED <<index_points, step_vals, train_ds, rng, num_epochs, prng_stack,
                   optimizer, batch, ts_sample_key, noise, train_steps, err,
                   applyVars, regVars>>

\* optimizer = optimizer.apply_gradient(grad); return optimizer, metrics
TrainStepReturn ==
    /\ main_pc = "grad"
    /\ optimizer' = [step |-> optimizer.step + 1]
    /\ train_steps' = Append(train_steps, ts_sample_key)
    /\ main_pc' = "done"
    /\ UNCHANGED <<index_points, step_vals, train_ds, rng, num_epochs, prng_stack,
                   batch, loss, ts_sample_key, noise, err, applyVars, regVars>>

--------------------------------------------------------------------------
(* basic_regression2.py: _diag_shift and GaussianProcessLayer.apply *)

\* jnp.diag_indices(n, ndim): ndim copies of arange(n)
diag_indices(n, ndim) == [d \in 1..ndim |-> [k \in 1..n |-> k]]

\* jnp.diag(mat)
diag(mat) == [k \in 1..Len(mat) |-> mat[k][k]]

\* ops.index_update(mat, idx, vals) for a 2-d mat
index_update(mat, idx, vals) ==
    [i \in 1..Len(mat) |-> [j \in 1..Len(mat[i]) |->
        IF \E k \in 1..Len(idx[1]) : idx[1][k] = i /\ idx[2][k] = j
        THEN vals[CHOOSE k \in 1..Len(idx[1]) : idx[1][k] = i /\ idx[2][k] = j]
        ELSE mat[i][j]]]

\* val added to every entry instead of the diagonal only
diag_shift_everywhere(mat, val) ==
    [i \in 1..Len(mat) |-> [j \in 1..Len(mat[i]) |-> mat[i][j] + val]]

\* _diag_shift(mat, val)
diag_shift(mat, val) ==
    index_update(mat, diag_indices(Len(mat), 2),
                 [k \in 1..Len(mat) |-> diag(mat)[k] + val])

\* lambda x: jnp.zeros(x.shape[:-1], dtype=index_points.dtype)
ZerosMean == [kind |-> "callable", value |-> 0]

\* mean_fun(index_points) for the mean functions explored (constant ones)
CallMean(f, n) == [i \in 1..n |-> f.value]

\* if mean_fun is None: mean_fun = lambda x: zeros
GpDefaultMean ==
    /\ gp_pc = "begin"
    /\ mean_fun' = IF mean_fun = None THEN ZerosMean ELSE mean_fun
    /\ gp_pc' = "mean"
    /\ UNCHANGED <<gp_index_points, kernel_fun, jitter, mean, cov, chol_arg,
                   msVars, pkVars, driverVars, err, applyVars>>

\* mean = mean_fun(index_points)
GpMean ==
    /\ gp_pc = "mean"
    /\ mean' = CallMean(mean_fun, gp_index_points)
    /\ gp_pc' = "cov"
    /\ UNCHANGED <<gp_index_points, kernel_fun, mean_fun, jitter, cov, chol_arg,
                   msVars, pkVars, driverVars, err, applyVars>>

\* cov = kernel_fun(index_points)
GpCov ==
    /\ gp_pc = "cov"
    /\ cov' = kernel_fun
    /\ gp_pc' = "diag_shift"
    /\ UNCHANGED <<gp_index_points, kernel_fun, mean_fun, jitter, mean, chol_arg,
                   msVars, pkVars, driverVars, err, applyVars>>

\* cov = _diag_shift(cov, jitter)
GpDiagShift ==
    /\ gp_pc = "diag_shift"
    /\ cov' = diag_shift(cov, jitter)
    /\ gp_pc' = "cholesky"
    /\ UNCHANGED <<gp_index_points, kernel_fun, mean_fun, jitter, mean, chol_arg,
                   msVars, pkVars, driverVars, err, applyVars>>

\* return MultivariateNormalTriL(mean, jnp.linalg.cholesky(cov))
GpCholesky ==
    /\ gp_pc = "cholesky"
    /\ chol_arg' = cov
    /\ gp_pc' = "returned"
    /\ UNCHANGED <<gp_index_points, kernel_fun, mean_fun, jitter, mean, cov,
                   msVars, pkVars, driverVars, err, applyVars>>

--------------------------------------------------------------------------
(* basic_regression2.py: MeanShiftDistribution.apply *)

\* p.mean + shift with numpy broadcasting of 1-d arrays
BroadcastAdd(m, s) ==
    [i \in 1..(IF Len(m) >= Len(s) THEN Len(m) ELSE Len(s)) |->
        (IF Len(m) = 1 THEN m[1] ELSE m[i]) + (IF Len(s) = 1 THEN s[1] ELSE s[i])]

\* dataclass replace: a new object of the same type, the named field replaced
replace(obj, name, value) ==
    [type |-> obj.type,
     fields |-> [f \in DOMAIN obj.fields |->
                    IF f = name THEN value ELSE obj.fields[f]]]

\* the mean shifted in place, the object itself returned
MeanShiftInPlace ==
    /\ ms_pc = "call"
    /\ IF "mean" \in DOMAIN p.fields
       THEN /\ p' = replace(p, "mean", BroadcastAdd(p.fields.mean, shift))
            /\ pnew' = [status |-> "returned",
                        value |-> replace(p, "mean", BroadcastAdd(p.fields.mean, shift))]
       ELSE /\ p' = p
            /\ pnew' = [status |-> "raised", exc |-> "AttributeError",
                        msg |-> <<p, " must have a mean field.">>]
    /\ ms_pc' = "done"
    /\ UNCHANGED <<shift, gpVars, pkVars, driverVars, err, applyVars>>

\* try: return p.replace(mean=p.mean + shift)
\* except AttributeError: raise AttributeError("{} must have a (backquoted) mean field.")
MeanShiftApply ==
    /\ ms_pc = "call"
    /\ IF "mean" \in DOMAIN p.fields
       THEN pnew' = [status |-> "returned",
                     value |-> replace(p, "mean", BroadcastAdd(p.fields.mean, shift))]
       ELSE pnew' = [status |-> "raised", exc |-> "AttributeError",
                     msg |-> <<p, " must have a mean field.">>]
    /\ ms_pc' = "done"
    /\ UNCHANGED <<p, shift, gpVars, pkVars, driverVars, err, applyVars>>

--------------------------------------------------------------------------
(* basic_regression2.py: build_par_pack_and_unpack *)

RECURSIVE Prod(_)
Prod(s) == IF s = << >> THEN 1 ELSE Head(s) * Prod(Tail(s))

\* item.size of a leaf
Size(leaf) == Prod(leaf.shape)

\* jnp.cumsum
cumsum(s) == [i \in 1..Len(s) |-> SeqSum(SubSeq(s, 1, i))]

\* tree_flatten: the leaves in key order and the tree definition
tree_flatten(tree) == [leaves |-> tree, treedef |-> Len(tree)]
tree_unflatten(treedef, leaves) == [i \in 1..treedef |-> leaves[i]]

\* a[lo:hi]
Slice(a, lo, hi) ==
    LET h == IF hi > Len(a) THEN Len(a) ELSE hi
    IN IF lo >= h THEN << >> ELSE SubSeq(a, lo + 1, h)

\* jnp.split(a, indices): Len(indices) + 1 sections
jnp_split(a, indices) ==
    [k \in 1..(Len(indices) + 1) |->
        Slice(a, IF k = 1 THEN 0 ELSE indices[k - 1],
                 IF k <= Len(indices) THEN indices[k] ELSE Len(a))]

\* zip stops at the shorter argument
zip(a, b) ==
    [i \in 1..(IF Len(a) <= Len(b) THEN Len(a) ELSE Len(b)) |-> <<a[i], b[i]>>]

\* x.reshape(s) of a flat x, and item.ravel()
reshape(flat, s) ==
    IF Len(flat) = Prod(s) THEN [shape |-> s, data |-> flat]
    ELSE [shape |-> s, data |-> flat, error |-> "ValueError"]
ravel(leaf) == leaf.data

RECURSIVE concatenate(_)
concatenate(parts) ==
    IF parts = << >> THEN << >> ELSE Head(parts) \o concatenate(Tail(parts))

\* the sizes themselves, not accumulated
SectionSizesNotAccumulated(value_flat) ==
    [i \in 1..Len(value_flat) |-> Size(value_flat[i])]

\* section_sizes = jnp.cumsum(jnp.array([item.size for item in value_flat]))
SectionSizes(value_flat) ==
    cumsum([i \in 1..Len(value_flat) |-> Size(value_flat[i])])

\* def par_from_array(arr), with the closure variables as arguments
par_from_array(a, sizes, shapes, value_tree) ==
    LET value_flat == jnp_split(a, sizes)
        pairs == zip(value_flat, shapes)
    IN tree_unflatten(value_tree,
                      [i \in 1..Len(pairs) |-> reshape(pairs[i][1], pairs[i][2])])

\* def array_from_par(params)
array_from_par(tree) ==
    LET value_flat == tree_flatten(tree).leaves
    IN concatenate([i \in 1..Len(value_flat) |-> ravel(value_flat[i])])

\* value_flat, value_tree = tree_flatten(model.params); section_shapes = ...;
\* section_sizes = ...
PackBuild ==
    /\ pk_pc = "build"
    /\ section_shapes' = [i \in 1..Len(params) |-> tree_flatten(params).leaves[i].shape]
    /\ section_sizes' = SectionSizes(tree_flatten(params).leaves)
    /\ pk_pc' = "ready"
    /\ UNCHANGED <<params, arr, par, arr_out, par_out, gpVars, msVars,
                   driverVars, err, applyVars>>

\* x0 = array_from_par(params)
PackPar ==
    /\ pk_pc = "ready"
    /\ arr_out' = array_from_par(par)
    /\ pk_pc' = "packed"
    /\ UNCHANGED <<params, section_shapes, section_sizes, arr, par, par_out,
                   gpVars, msVars, driverVars, err, applyVars>>

\* par_from_array applied to the packed tree
UnpackPacked ==
    /\ pk_pc = "packed"
    /\ par_out' = par_from_array(arr_out, section_sizes, section_shapes, Len(params))
    /\ pk_pc' = "par_round_trip"
    /\ UNCHANGED <<params, section_shapes, section_sizes, arr, par, arr_out,
                   gpVars, msVars, driverVars, err, applyVars>>

\* params = par_from_array(arr)
UnpackArr ==
    /\ pk_pc = "ready"
    /\ par_out' = par_from_array(arr, section_sizes, section_shapes, Len(params))
    /\ pk_pc' = "unpacked"
    /\ UNCHANGED <<params, section_shapes, section_sizes, arr, par, arr_out,
                   gpVars, msVars, driverVars, err, applyVars>>

\* array_from_par applied to the unpacked array
PackUnpacked ==
    /\ pk_pc = "unpacked"
    /\ arr_out' = array_from_par(par_out)
    /\ pk_pc' = "arr_round_trip"
    /\ UNCHANGED <<params, section_shapes, section_sizes, arr, par, par_out,
                   gpVars, msVars, driverVars, err, applyVars>>

--------------------------------------------------------------------------
(* Initial states: one per operation that can be entered *)

IdleApply ==
    /\ pc = "idle" /\ args = None /\ x = None /\ sample_key = << >>
    /\ kwargs = EmptyDict /\ vgps = << >> /\ mf = "none" /\ layer = 0
    /\ kf = None /\ inducing_var = None /\ vgp = None /\ loglik = None
    /\ built = << >> /\ draws = << >>

IdleDriver ==
    /\ main_pc = "idle" /\ index_points = << >> /\ step_vals = << >>
    /\ train_ds = None /\ rng = << >> /\ num_epochs = 0 /\ prng_stack = << >>
    /\ optimizer = None /\ batch = None /\ loss = 0 /\ ts_sample_key = << >>
    /\ noise = << >> /\ train_steps = << >> /\ err = "none"

IdleGp ==
    /\ gp_pc = "idle" /\ gp_index_points = 0 /\ kernel_fun = << >>
    /\ mean_fun = None /\ jitter = 0 /\ mean = << >> /\ cov = << >>
    /\ chol_arg = << >>

IdleMs ==
    /\ ms_pc = "idle" /\ p = None /\ shift = 0 /\ pnew = None

IdlePk ==
    /\ pk_pc = "idle" /\ params = << >> /\ section_shapes = << >>
    /\ section_sizes = << >> /\ arr = << >> /\ par = << >>
    /\ arr_out = << >> /\ par_out = << >>

\* main(): get_datasets(), then train(train_ds)
InitMain ==
    /\ main_pc = "get_datasets" /\ index_points = << >> /\ step_vals = << >>
    /\ train_ds = None /\ rng = << >> /\ num_epochs \in 1..MaxEpochs
    /\ prng_stack = << >> /\ optimizer = None /\ batch = None /\ loss = 0
    /\ ts_sample_key = << >> /\ noise = << >> /\ train_steps = << >>
    /\ err = "none"
    /\ IdleApply /\ IdleGp /\ IdleMs /\ IdlePk

\* train_step(optimizer, batch, sample_key) on a model and a key of the
\* training chain
InitTrainStep ==
    /\ main_pc = "train_step" /\ index_points = << >> /\ step_vals = << >>
    /\ train_ds = None /\ rng = << >> /\ num_epochs = 0 /\ prng_stack = << >>
    /\ optimizer = [step |-> 0]
    /\ batch \in {[index_points |-> [kind |-> "input", id |-> b],
                   y |-> [kind |-> "observations", id |-> b]] : b \in 1..MaxBatch}
    /\ loss = 0
    /\ ts_sample_key \in {SplitChain(make_rng(stochastic(PRNGKey(1))), e) :
                            e \in 1..MaxEpochs}
    /\ noise = << >> /\ train_steps = << >> /\ err = "none"
    /\ IdleApply /\ IdleGp /\ IdleMs /\ IdlePk

\* GaussianProcessLayer(index_points, kernel_fun[, mean_fun][, jitter]); a
\* kernel's matrix on the index points is symmetric
SymMatrices(n) ==
    {m \in [1..n -> [1..n -> 0..MaxEntry]] :
        \A i \in 1..n : \A j \in 1..n : m[i][j] = m[j][i]}

InitGpLayer ==
    /\ gp_pc = "begin"
    /\ gp_index_points \in 1..MaxN
    /\ kernel_fun \in SymMatrices(gp_index_points)
    /\ mean_fun \in {None, [kind |-> "callable", value |-> 1]}
    /\ jitter \in {DefaultJitter} \cup (1..MaxJitter)
    /\ mean = << >> /\ cov = << >> /\ chol_arg = << >>
    /\ IdleDriver /\ IdleApply /\ IdleMs /\ IdlePk

\* MeanShiftDistribution(p, shift): p a dataclass instance, with or without
\* a mean field; shift broadcastable with p.mean
Vectors(maxval) == UNION {[1..n -> 0..maxval] : n \in 1..MaxMeanLen}

Dataclasses ==
    {[type |-> "MultivariateNormalTriL", fields |-> [mean |-> m, scale |-> sc]] :
        m \in Vectors(MaxMean), sc \in {"L1", "L2"}}
    \cup {[type |-> "MultivariateNormalDiag",
           fields |-> [mean |-> m, scale_diag |-> "d1"]] : m \in Vectors(MaxMean)}
    \cup {[type |-> "GaussianProcess",
           fields |-> [index_points |-> "X", mean_function |-> "m",
                       kernel_function |-> "k", jitter |-> DefaultJitter]]}

InitMeanShift ==
    /\ ms_pc = "call"
    /\ p \in Dataclasses
    /\ shift \in Vectors(MaxShift)
    /\ "mean" \in DOMAIN p.fields =>
          (Len(shift) = 1 \/ Len(p.fields.mean) = 1 \/ Len(shift) = Len(p.fields.mean))
    /\ pnew = None
    /\ IdleDriver /\ IdleApply /\ IdleGp /\ IdlePk

\* build_par_pack_and_unpack(model), then a round trip in either direction
Shapes == UNION {[1..r -> 1..MaxDim] : r \in 0..MaxRank}

RECURSIVE TotalSize(_)
TotalSize(tree) == IF tree = << >> THEN 0 ELSE Size(Head(tree)) + TotalSize(Tail(tree))

PatternVal(b, up, n, g) == IF up THEN b + g ELSE b + n + 1 - g

InitPack ==
    /\ pk_pc = "build"
    /\ params \in UNION {[1..k -> {[shape |-> sh, data |-> [j \in 1..Prod(sh) |-> 0]] :
                                      sh \in Shapes}] : k \in 1..MaxLeaves}
    /\ \E b \in 0..MaxBase : \E up \in BOOLEAN :
        /\ arr = [g \in 1..TotalSize(params) |-> PatternVal(b, up, TotalSize(params), g)]
        /\ par = [i \in 1..Len(params) |->
                    [shape |-> params[i].shape,
                     data |-> [j \in 1..Size(params[i]) |->
                                 PatternVal(b, up, TotalSize(params),
                                            TotalSize(SubSeq(params, 1, i - 1)) + j)]]]
    /\ section_shapes = << >> /\ section_sizes = << >>
    /\ arr_out = << >> /\ par_out = << >>
    /\ IdleDriver /\ IdleApply /\ IdleGp /\ IdleMs

Init == InitMain \/ InitTrainStep \/ InitGpLayer \/ InitMeanShift \/ InitPack

Next ==
    \/ GetDatasetsLinspace \/ GetDatasetsStepFun \/ GetDatasetsReturn
    \/ TrainBegin \/ CreateModel \/ PropagateError
    \/ TrainStepCall \/ LossFn \/ TrainStepReturn
    \/ ApplyBegin \/ BuildKernel \/ BuildInducing \/ BuildVgp \/ SampleLayer
    \/ NextLayer \/ BuildLoglik
    \/ GpDefaultMean \/ GpMean \/ GpCov \/ GpDiagShift \/ GpCholesky
    \/ MeanShiftApply
    \/ PackBuild \/ PackPar \/ UnpackPacked \/ UnpackArr \/ PackUnpacked

Spec == Init /\ [][Next]_vars

--------------------------------------------------------------------------
(* Properties *)

Sign(v) == IF v < 0 THEN 0 - 1 ELSE IF v = 0 THEN 0 ELSE 1

RECURSIVE SetSum(_, _)
SetSum(f, S) ==
    IF S = {} THEN 0
    ELSE LET e == CHOOSE e \in S : TRUE IN f[e] + SetSum(f, S \ {e})

\* the log entry of the SVGP constructed for layer l
VgpBuilt(l) ==
    built[CHOOSE i \in 1..Len(built) : built[i].what = "vgp" /\ built[i].layer = l]

\* C1: in a forward evaluation of DeepGPModel every provider of layer 1
\* (kernel, inducing variable, SVGP) is built on the raw input x; every
\* provider of a layer l >= 2 is built on exactly the sample, with a trailing
\* feature axis, drawn from the marginal of layer l-1; the likelihood is built
\* on the sample drawn from the last layer; no later layer reads the raw input.
C1_LayerChaining ==
    /\ \A i \in 1..Len(built) :
        /\ built[i].layer = 1 => built[i].index_points = args.x
        /\ built[i].layer >= 2 =>
            /\ Len(draws) >= built[i].layer - 1
            /\ built[i].index_points = draws[built[i].layer - 1].value
            /\ draws[built[i].layer - 1].layer = built[i].layer - 1
            /\ built[i].index_points.kind = "sample"
            /\ built[i].index_points.marginal_of = <<"vgp", built[i].layer - 1>>
            /\ built[i].index_points.feature_axis
            /\ built[i].index_points # args.x
        /\ built[i].what = "loglik" => built[i].layer = NumLayers + 1
    /\ pc = "returned" =>
        /\ loglik.mean_of = draws[NumLayers].value
        /\ \A l \in 1..NumLayers :
            \A w \in {"kernel_fun", "inducing_var", "vgp"} :
                \E i \in 1..Len(built) : built[i].what = w /\ built[i].layer = l

C1_Witness ==
    /\ pc = "returned"
    /\ Len(built) = 3 * NumLayers + 1
    /\ built[Len(built)].what = "loglik"
    /\ built[Len(built)].index_points.marginal_of = <<"vgp", NumLayers>>

\* C2: the mean function bound to a layer's SVGP at construction is the zero
\* function exactly for layer 1 and the feature-0 identity mean for every
\* layer l >= 2, and a layer already constructed keeps the mean function it
\* was constructed with whatever mf is rebound to afterwards.
C2_MeanFunctions ==
    /\ \A i \in 1..Len(built) :
        built[i].what = "vgp" =>
            /\ (built[i].mean_fun = "zeros") <=> (built[i].layer = 1)
            /\ built[i].layer >= 2 => built[i].mean_fun = "feature_0"
    /\ \A i \in 1..Len(vgps) :
        /\ vgps[i].item.mean_fun = VgpBuilt(vgps[i].key).mean_fun
        /\ (vgps[i].item.mean_fun = "zeros") <=> (vgps[i].key = 1)
    /\ pc \in {"sample", "mean_fun"} => vgp.mean_fun = VgpBuilt(layer).mean_fun

C2_Witness ==
    /\ pc = "returned"
    /\ mf = "feature_0"
    /\ Len(vgps) = NumLayers
    /\ vgps[1].key = 1 /\ vgps[1].item.mean_fun = "zeros"
    /\ vgps[2].key = 2 /\ vgps[2].item.mean_fun = "feature_0"

\* C3: the loss computed by loss_fn is the negated log-likelihood of the
\* batch under the returned likelihood plus the sum of prior_kl() over the
\* layers of the model, each layer built by the model being in vgps exactly
\* once and so contributing its KL term exactly once.
C3_LossAddsEveryKlOnce ==
    main_pc \in {"grad", "done"} =>
        /\ Len(vgps) = NumLayers
        /\ \A l \in 1..NumLayers :
            Cardinality({i \in 1..Len(vgps) : vgps[i].key = l}) = 1
        /\ loss = (0 - loglik.log_prob)
                    + SetSum([l \in 1..NumLayers |-> VgpBuilt(l).kl], 1..NumLayers)

C3_Witness ==
    /\ main_pc = "grad"
    /\ loglik.log_prob = 0 - MaxLogProb
    /\ \A i \in 1..Len(vgps) : vgps[i].item.prior_kl = MaxKL
    /\ loss = MaxLogProb + NumLayers * MaxKL

\* C4: the matrix handed to the Cholesky factorization by
\* GaussianProcessLayer.apply is kernel_fun(index_points) with jitter added
\* to each diagonal entry and every off-diagonal entry unchanged; nothing is
\* factorized before the diagonal shift.
C4_JitterBeforeCholesky ==
    /\ gp_pc \in {"begin", "mean", "cov", "diag_shift", "cholesky"} => chol_arg = << >>
    /\ gp_pc \in {"cholesky", "returned"} =>
        \A i \in 1..gp_index_points : \A j \in 1..gp_index_points :
            cov[i][j] = kernel_fun[i][j] + (IF i = j THEN jitter ELSE 0)
    /\ gp_pc = "returned" =>
        /\ Len(chol_arg) = gp_index_points
        /\ \A i \in 1..gp_index_points : \A j \in 1..gp_index_points :
            /\ i = j => chol_arg[i][j] = kernel_fun[i][j] + jitter
            /\ i # j => chol_arg[i][j] = kernel_fun[i][j]

C4_Witness ==
    /\ gp_pc = "returned"
    /\ gp_index_points >= 2
    /\ mean_fun = ZerosMean
    /\ jitter = DefaultJitter
    /\ kernel_fun[1][2] # 0
    /\ chol_arg[1][1] = kernel_fun[1][1] + DefaultJitter

\* the dataset has been returned by get_datasets
DatasetReturned == main_pc \in {"train", "create_model", "init_by_shape", "raised"}

EvenlySpaced ==
    /\ Len(train_ds.index_points) = 25
    /\ Len(train_ds.y) = 25
    /\ train_ds.index_points[1] = <<0 - 12>>
    /\ train_ds.index_points[25] = <<12>>
    /\ \A i \in 1..24 :
        train_ds.index_points[i + 1][1] - train_ds.index_points[i][1] = 1

\* C5 as stated: the dataset is 25 evenly spaced index points in [-1.5, 1.5]
\* and the noise-free part of y equals sign(x) at every index point.
C5_NoiseFreeIsSign ==
    DatasetReturned =>
        /\ EvenlySpaced
        /\ \A i \in 1..Len(train_ds.y) :
            train_ds.y[i] - noise[i] = 10 * Sign(train_ds.index_points[i][1])

\* C5 amended: the dataset is 25 evenly spaced index points in [-1.5, 1.5]
\* and the noise-free part of y is -1 for x <= 0 (the grid point x = 0
\* included) and +1 for x > 0: it equals sign(x) at every point but x = 0.
C5_NoiseFreeIsStep ==
    DatasetReturned =>
        /\ EvenlySpaced
        /\ \A i \in 1..Len(train_ds.y) :
            LET v == train_ds.index_points[i][1]
                clean == train_ds.y[i] - noise[i]
            IN /\ v # 0 => clean = 10 * Sign(v)
               /\ v = 0 => clean = 0 - 10

C5_Witness ==
    /\ DatasetReturned
    /\ \E i \in 1..Len(train_ds.y) :
        /\ train_ds.index_points[i] = <<0>>
        /\ train_ds.y[i] - noise[i] = 0 - 10
        /\ noise[i] # 0

\* train has ended; in this model it only ends by the exception
TrainEnded == main_pc = "raised"

\* C6 as stated: in train, for every epoch e in 1..num_epochs exactly one
\* train step runs, with the key obtained as the second output of splitting
\* the key of epoch e-1 (epoch 0: the key drawn from the scope seeded with
\* PRNGKey(1)), and no two epochs use the same key.
C6_OneStepPerEpoch ==
    TrainEnded =>
        /\ Len(train_steps) = num_epochs
        /\ \A e \in 1..Len(train_steps) :
            train_steps[e] = SplitChain(make_rng(stochastic(PRNGKey(1))), e)
        /\ \A e \in 1..Len(train_steps) : \A f \in 1..Len(train_steps) :
            e # f => train_steps[e] # train_steps[f]

\* C7 as stated: create_model completes without error, and in every
\* constructor call of DeepGPModel.apply the keywords written out in the call
\* are disjoint from the keys of the dictionary unpacked into it.
C7_NoKeywordTwice ==
    /\ err = "none"
    /\ pc = "kernel_fun" =>
        DuplicateKeywords(KernelExplicit(layer),
                          KwGet(kwargs, KernelKwargsKey(layer))) = {}
    /\ pc = "inducing_var" =>
        DuplicateKeywords(InducingExplicit(layer),
                          KwGet(kwargs, InducingKwargsKey(layer))) = {}

\* C8: par_from_array and array_from_par are mutually inverse on trees of the
\* structure and leaf shapes of model.params and on flat arrays of the total
\* leaf size; leaf i receives the contiguous segment of the array between the
\* cumulative sizes of the leaves before i and through i; the split has one
\* extra, empty, trailing section, which is discarded.
C8_PackUnpackInverse ==
    /\ pk_pc = "par_round_trip" => par_out = par
    /\ pk_pc = "arr_round_trip" => arr_out = arr
    /\ pk_pc \in {"unpacked", "arr_round_trip"} =>
        /\ Len(par_out) = Len(params)
        /\ \A i \in 1..Len(par_out) :
            /\ DOMAIN par_out[i] = {"shape", "data"}
            /\ par_out[i].shape = params[i].shape
            /\ Len(par_out[i].data) = Size(params[i])
            /\ \A j \in 1..Size(params[i]) :
                par_out[i].data[j] = arr[TotalSize(SubSeq(params, 1, i - 1)) + j]
        /\ Len(jnp_split(arr, section_sizes)) = Len(params) + 1
        /\ jnp_split(arr, section_sizes)[Len(params) + 1] = << >>

C8_Witness ==
    /\ pk_pc = "arr_round_trip"
    /\ Len(params) >= 2
    /\ params[1].shape = << >>
    /\ Size(params[2]) >= 2
    /\ arr_out = arr
    /\ par_out[2].data = SubSeq(arr, 2, Len(arr))

\* C9: MeanShiftDistribution.apply(p, shift) leaves p unchanged; when p has a
\* mean field it returns an object of p's type whose mean is p.mean + shift
\* and whose other fields equal p's; when p has no mean field it raises an
\* AttributeError saying that p must have a mean field and returns nothing.
C9_MeanShift ==
    [][(ms_pc = "call" /\ ms_pc' = "done") =>
        /\ p' = p
        /\ "mean" \in DOMAIN p.fields =>
            /\ pnew'.status = "returned"
            /\ pnew'.value.type = p.type
            /\ DOMAIN pnew'.value.fields = DOMAIN p.fields
            /\ \A f \in DOMAIN p.fields \ {"mean"} :
                pnew'.value.fields[f] = p.fields[f]
            /\ \A i \in 1..Len(pnew'.value.fields.mean) :
                pnew'.value.fields.mean[i] =
                    p.fields.mean[IF Len(p.fields.mean) = 1 THEN 1 ELSE i]
                    + shift[IF Len(shift) = 1 THEN 1 ELSE i]
            /\ Len(pnew'.value.fields.mean) >= Len(p.fields.mean)
            /\ Len(pnew'.value.fields.mean) >= Len(shift)
        /\ "mean" \notin DOMAIN p.fields =>
            /\ pnew'.status = "raised"
            /\ pnew'.exc = "AttributeError"
            /\ pnew'.msg = <<p, " must have a mean field.">>
            /\ "value" \notin DOMAIN pnew']_vars

C9_Witness ==
    /\ ms_pc = "done"
    /\ pnew.status = "returned"
    /\ \E i \in 1..Len(shift) : shift[i] # 0
    /\ pnew.value.fields.mean # p.fields.mean
    /\ pnew.value.fields.scale = p.fields.scale

\* C10: within one forward evaluation of DeepGPModel every layer draws its 17
\* samples with the sample_key the caller passed: the key is neither split nor
\* advanced between layers, so all layers consume one and the same key.
C10_SameKeyEveryLayer ==
    /\ \A i \in 1..Len(draws) :
        /\ draws[i].key = args.sample_key
        /\ draws[i].shape = <<17>>
        /\ draws[i].value.key = args.sample_key
    /\ \A i \in 1..Len(draws) : \A j \in 1..Len(draws) : draws[i].key = draws[j].key
    /\ pc \notin {"idle"} => sample_key = args.sample_key

C10_Witness ==
    /\ Len(draws) = NumLayers
    /\ draws[1].layer = 1
    /\ draws[2].layer = 2
    /\ draws[1].key = draws[2].key

====
